---- MODULE Spec2Model ----
(***************************************************************************)
(* A model of the casbin PostgreSQL adapter (package pgadapter): the rule  *)
(* record CasbinRule, its codec (savePolicyLine, String), the identity     *)
(* function policyID, and the store operations of Adapter acting on one    *)
(* table whose primary key is the column id.                               *)
(*                                                                         *)
(* A Go string is a sequence of one-character strings, so that joining,    *)
(* formatting and parsing are computed character by character.             *)
(***************************************************************************)
EXTENDS Integers, Sequences, FiniteSets, Bags, TLC

VARIABLES
    table,      \* the committed rows of the table a.tableName
    filtered,   \* Adapter.filtered
    model,      \* the policy model the last load appended to (a bag of entries)
    load,       \* the caller's record of the last load: operation and error
    call,       \* the caller's record of the last mutation: arguments and error
    before,     \* the rows of the table when that mutation was called
    args,       \* arguments handed to savePolicyLine (identity specification)
    lines,      \* the records savePolicyLine built from args
    db          \* the connection handle a.db: "open" or "closed"

vars == <<table, filtered, model, load, call, before, args, lines, db>>

----------------------------------------------------------------------------
(* Strings *)

E == <<>>
A == <<"a">>
B == <<"b">>
P == <<"p">>
G == <<"g">>
Sep == <<",">>

\* The number of value columns v0..v5 of CasbinRule.
NumFields == 6

PTypes == {P, G}

\* strings.Join(elems, sep)
RECURSIVE Join(_, _)
Join(elems, sep) ==
    IF elems = <<>> THEN <<>>
    ELSE IF Len(elems) = 1 THEN elems[1]
    ELSE elems[1] \o sep \o Join(Tail(elems), sep)

----------------------------------------------------------------------------
(* Identity function and codec *)

\* A variant of policyID that concatenates the parts with no separator.
policyIDNoSeparator(ptype, rule) == Join(<<ptype>> \o rule, <<>>)

\* meow.Checksum is taken to be collision-free and fmt.Sprintf("%x") is
\* injective: the identity is represented by the checksum's input.
policyID(ptype, rule) == Join(<<ptype>> \o rule, Sep)

savePolicyLine(ptype, rule) ==
    [ID    |-> policyID(ptype, rule),
     Ptype |-> ptype,
     V     |-> [i \in 1..NumFields |-> IF Len(rule) > i - 1 THEN rule[i] ELSE E]]

\* The highest slot holding a non-empty value, 0 when there is none
\* (lastIndex + 1 of the source).
LastIndex(values) ==
    IF \E i \in 1..Len(values) : values[i] # E
    THEN CHOOSE i \in 1..Len(values) :
            values[i] # E /\ \A j \in (i + 1)..Len(values) : values[j] = E
    ELSE 0

RECURSIVE WriteValues(_, _)
WriteValues(values, n) ==
    IF n = 0 THEN <<>>
    ELSE WriteValues(values, n - 1) \o <<",", " ">> \o values[n]

RECURSIVE WriteNonEmpty(_, _)
WriteNonEmpty(values, n) ==
    IF n = 0 THEN <<>>
    ELSE WriteNonEmpty(values, n - 1)
            \o (IF values[n] # E THEN <<",", " ">> \o values[n] ELSE <<>>)

\* A variant of String that leaves out every empty slot.
StringSkipEmpty(r) == r.Ptype \o WriteNonEmpty(r.V, NumFields)

\* A variant of String that writes all six slots.
StringAllSlots(r) == r.Ptype \o WriteValues(r.V, NumFields)

\* CasbinRule.String: the rule type, then ", " and the value of every slot up
\* to the last non-empty one.
String(r) == r.Ptype \o WriteValues(r.V, LastIndex(r.V))

----------------------------------------------------------------------------
(* The engine's line parser, persist.LoadPolicyLine: a CSV reader with     *)
(* Comma = ',' and TrimLeadingSpace; the first token is the rule type.     *)

RECURSIVE SplitComma(_)
SplitComma(s) ==
    IF \A i \in 1..Len(s) : s[i] # ","
    THEN <<s>>
    ELSE LET k == CHOOSE i \in 1..Len(s) :
                    s[i] = "," /\ \A j \in 1..(i - 1) : s[j] # ","
         IN  <<SubSeq(s, 1, k - 1)>> \o SplitComma(SubSeq(s, k + 1, Len(s)))

RECURSIVE TrimLeadingSpace(_)
TrimLeadingSpace(s) ==
    IF s # <<>> /\ s[1] = " " THEN TrimLeadingSpace(Tail(s)) ELSE s

LoadPolicyLine(line) ==
    LET fields == SplitComma(line)
        tokens == [i \in 1..Len(fields) |-> TrimLeadingSpace(fields[i])]
    IN  [key |-> tokens[1], rule |-> Tail(tokens)]

\* The nil error.
Nil == "nil"

\* The quote character of the CSV reader.
Quote == "\""

\* The error of persist.LoadPolicyLine: the reader rejects a line with a
\* quote that opens no field or is not closed.  A line with an odd number of
\* quotes is such a line and a line without quotes is not; the stored rows
\* considered hold at most one quote.
LoadPolicyLineErr(line) ==
    IF Cardinality({i \in 1..Len(line) : line[i] = Quote}) % 2 = 1 THEN "error" ELSE Nil

----------------------------------------------------------------------------
(* Bounds and input sets *)

\* The most rows the table is let to hold.
MaxRows == 2

\* The rule tuples the store specification draws its arguments from: the
\* empty tuple, a one-entry tuple and the same with a trailing empty entry,
\* a tuple with a leading empty entry, and a six-entry tuple with embedded
\* empty entries.
Rules == {<<>>, <<A>>, <<A, E>>, <<E, A>>, <<B, E, E, E, E, A>>}

\* Every tuple of 0..n entries over the values in vals.
TuplesUpTo(vals, n) == UNION {[1..k -> vals] : k \in 0..n}

\* Every tuple of 0..NumFields entries over the values in vals.
TuplesOver(vals) == TuplesUpTo(vals, NumFields)

\* The longest tuple holding a value with the separator in it that the
\* identity specification draws.
IdMaxLen == 3

\* The arguments of the identity specification: every tuple of up to six
\* entries that are empty or "a", and the shorter tuples whose entries may
\* also be the separator itself.
IdRules == TuplesOver({E, A}) \cup TuplesUpTo({E, A, Sep}, IdMaxLen)
IdInputs == [ptype : PTypes, rule : IdRules]

\* The rule tuples of the codec specification.
CodecRules == TuplesOver({E, A})

\* The most tuples handed to AddPolicies or RemovePolicies in one call.
MaxBatch == 2

\* The non-empty batches of rule tuples.
Batches == TuplesUpTo(Rules, MaxBatch) \ {<<>>}

\* The most values handed to RemoveFilteredPolicy in one call.
MaxFilterLen == 2

FieldIndexes == 0..(NumFields - 1)
FilterValues == TuplesUpTo({E, A}, MaxFilterLen)

\* The most tuples, over both sections, of a snapshot handed to SavePolicy.
MaxSnap == 2

\* A snapshot holds the tuples of model["p"]["p"] and of model["g"]["g"].
SnapRules == {<<A>>, <<A, E>>, <<E, A>>}
Snapshots ==
    {m \in [p : TuplesUpTo(SnapRules, MaxSnap), g : TuplesUpTo(SnapRules, MaxSnap)] :
        Len(m.p) + Len(m.g) <= MaxSnap}

NoCall == [op |-> "none"]
NoLoad == [op |-> "none"]

----------------------------------------------------------------------------
(* Statements *)

\* INSERT ... ON CONFLICT DO NOTHING of one record; id is the primary key.
InsertDoNothing(rows, line) ==
    IF \E r \in rows : r.ID = line.ID THEN rows ELSE rows \cup {line}

\* The inserts of lines[1..n] in order, each ON CONFLICT DO NOTHING.
RECURSIVE InsertLines(_, _, _)
InsertLines(rows, ls, n) ==
    IF n = 0 THEN rows
    ELSE InsertDoNothing(InsertLines(rows, ls, n - 1), ls[n])

\* A variant of DeleteAll that deletes nothing.
DeleteNone(rows) == rows

\* DELETE ... WHERE id IS NOT NULL; id is the primary key, never NULL.
DeleteAll(rows) == {r \in rows : FALSE}

\* A variant of DeleteByPK that matches on the rule type and the six slots.
DeleteByContent(rows, ls) ==
    {r \in rows : \A i \in 1..Len(ls) : r.Ptype # ls[i].Ptype \/ r.V # ls[i].V}

\* DELETE of the rows whose primary key is the id of one of the records.
DeleteByPK(rows, ls) == {r \in rows : \A i \in 1..Len(ls) : r.ID # ls[i].ID}

\* A variant of TxEnd that keeps the rows written so far in every case.
TxEndNoRollback(committed, rows, tx) == tx

\* The end of a transaction: the rows written in it when tx.Commit was
\* reached and succeeded, and the rows as they were when the deferred
\* tx.Close rolled it back.
TxEnd(committed, rows, tx) == IF committed THEN tx ELSE rows

\* A variant of FilterWhere that compares a slot with an empty value too.
FilterEmptyIsValue(r, ptype, fieldIndex, fieldValues) ==
    LET idx == fieldIndex + Len(fieldValues)
    IN  /\ r.Ptype = ptype
        /\ \A j \in 0..(NumFields - 1) :
              (fieldIndex <= j /\ idx > j)
                  => r.V[j + 1] = fieldValues[j - fieldIndex + 1]

\* The WHERE clause RemoveFilteredPolicy builds: the rule type, and for
\* each slot j of 0..5 addressed by a non-empty value, v<j> = that value.
FilterWhere(r, ptype, fieldIndex, fieldValues) ==
    LET idx == fieldIndex + Len(fieldValues)
    IN  /\ r.Ptype = ptype
        /\ \A j \in 0..(NumFields - 1) :
              (fieldIndex <= j /\ idx > j /\ fieldValues[j - fieldIndex + 1] # E)
                  => r.V[j + 1] = fieldValues[j - fieldIndex + 1]

\* A row whose line persist.LoadPolicyLine rejects.
Undecodable(r) == LoadPolicyLineErr(String(r)) # Nil

\* SELECT of every row, each decoded by persist.LoadPolicyLine and appended
\* to the model unless the decoding failed; the order of the rows is not
\* part of the result.
LoadedEntries(rows) ==
    LET entry(r) == LoadPolicyLine(String(r))
        good == {r \in rows : ~Undecodable(r)}
    IN  [e \in {entry(r) : r \in good} |->
            Cardinality({r \in good : entry(r) = e})]

----------------------------------------------------------------------------
(* Store operations *)

\* The caller holds no result of an earlier call: the store operations are
\* synchronous, and the next call is made when the last one has returned.
Idle == call = NoCall /\ load = NoLoad

Init ==
    /\ table = {}
    /\ filtered = FALSE
    /\ model = EmptyBag
    /\ load = NoLoad
    /\ call = NoCall
    /\ before = {}
    /\ args = <<>>
    /\ lines = <<>>
    /\ db = "open"

AddPolicy(ptype, rule) ==
    LET line == savePolicyLine(ptype, rule)
        rows == InsertDoNothing(table, line)
    IN  /\ Cardinality(rows) <= MaxRows
        /\ table' = rows
        /\ call' = [op |-> "AddPolicy", ptype |-> ptype, rule |-> rule, err |-> Nil]
        /\ before' = table
        /\ UNCHANGED <<filtered, model, load, args, lines, db>>

\* The places where the storage may fail a call made through
\* RunInTransaction: the Begin, the statement, the Commit; or nowhere.
NoFault == [at |-> "none", i |-> 0]
TxFaults == {[at |-> a, i |-> 0] : a \in {"none", "begin", "exec", "commit"}}

\* The error a call returns under a fault.
ErrOf(fault) == IF fault.at = "none" THEN Nil ELSE "error"

\* The bulk insert runs on tx.
AddPolicies(ptype, rules, fault) ==
    LET ls == [i \in 1..Len(rules) |-> savePolicyLine(ptype, rules[i])]
        tx == IF fault.at \in {"begin", "exec"} THEN table
              ELSE InsertLines(table, ls, Len(ls))
        rows == TxEnd(fault.at = "none", table, tx)
    IN  /\ Cardinality(rows) <= MaxRows
        /\ table' = rows
        /\ call' = [op |-> "AddPolicies", ptype |-> ptype, rules |-> rules,
                    fault |-> fault, err |-> ErrOf(fault)]
        /\ before' = table
        /\ UNCHANGED <<filtered, model, load, args, lines, db>>

RemovePolicy(ptype, rule) ==
    LET line == savePolicyLine(ptype, rule)
    IN  /\ table' = DeleteByPK(table, <<line>>)
        /\ call' = [op |-> "RemovePolicy", ptype |-> ptype, rule |-> rule, err |-> Nil]
        /\ before' = table
        /\ UNCHANGED <<filtered, model, load, args, lines, db>>

\* The delete runs on tx.
RemovePolicies(ptype, rules, fault) ==
    LET ls == [i \in 1..Len(rules) |-> savePolicyLine(ptype, rules[i])]
        tx == IF fault.at \in {"begin", "exec"} THEN table ELSE DeleteByPK(table, ls)
    IN  /\ table' = TxEnd(fault.at = "none", table, tx)
        /\ call' = [op |-> "RemovePolicies", ptype |-> ptype, rules |-> rules,
                    fault |-> fault, err |-> ErrOf(fault)]
        /\ before' = table
        /\ UNCHANGED <<filtered, model, load, args, lines, db>>

\* The query is built on a.db and its delete runs on a.db, outside the
\* transaction opened around it: it takes effect when it succeeds, whatever
\* the Commit of that transaction returns.
RemoveFilteredPolicy(ptype, fieldIndex, fieldValues, fault) ==
    /\ table' = IF fault.at \in {"begin", "exec"} THEN table
                ELSE {r \in table : ~FilterWhere(r, ptype, fieldIndex, fieldValues)}
    /\ call' = [op |-> "RemoveFilteredPolicy", ptype |-> ptype,
                fieldIndex |-> fieldIndex, fieldValues |-> fieldValues,
                fault |-> fault, err |-> ErrOf(fault)]
    /\ before' = table
    /\ UNCHANGED <<filtered, model, load, args, lines, db>>

\* The lines SavePolicy builds: those of section "p", then those of "g".
SaveLines(m) ==
    [i \in 1..Len(m.p) |-> savePolicyLine(P, m.p[i])]
        \o [i \in 1..Len(m.g) |-> savePolicyLine(G, m.g[i])]

\* The places where the storage may fail SavePolicy: db.Begin, the delete,
\* the insert of line i, tx.Commit; or nowhere.
SaveFaults(m) ==
    {[at |-> a, i |-> 0] : a \in {"none", "begin", "delete", "commit"}}
        \cup {[at |-> "insert", i |-> i] : i \in 1..Len(SaveLines(m))}

SavePolicy(m, fault) ==
    LET ls == SaveLines(m)
        \* the inserts that ran without an error
        n == CASE fault.at \in {"begin", "delete"} -> 0
               [] fault.at = "insert" -> fault.i - 1
               [] OTHER -> Len(ls)
        deleted == IF fault.at \in {"begin", "delete"} THEN table ELSE DeleteAll(table)
        tx == InsertLines(deleted, ls, n)
    IN  /\ Cardinality(tx) <= MaxRows
        /\ table' = TxEnd(fault.at = "none", table, tx)
        /\ call' = [op |-> "SavePolicy", model |-> m, fault |-> fault,
                    err |-> IF fault.at = "none" THEN Nil ELSE "error"]
        /\ before' = table
        /\ UNCHANGED <<filtered, model, load, args, lines, db>>

\* The places where the storage may fail a load: the Select of the whole
\* table or of the rows of section "p" (i = 1), the Select of the rows of
\* section "g" (i = 2); or nowhere.
LoadFaults == {NoFault} \cup {[at |-> "select", i |-> i] : i \in 1..2}

\* The error LoadPolicy returns: that of the Select, or that of the first
\* row whose decoding fails.
LoadPolicyErr(fault) ==
    IF fault.at = "select" \/ \E r \in table : Undecodable(r) THEN "error" ELSE Nil

\* The models LoadPolicy may leave: every row is appended unless the Select
\* failed; when the decoding of a row fails, the rows the Select returned
\* before it are appended, and the Select has no ORDER BY.
LoadPolicyModels(fault) ==
    IF fault.at = "select" THEN {model}
    ELSE IF \E r \in table : Undecodable(r)
         THEN {model (+) LoadedEntries(part) :
                    part \in SUBSET {r \in table : ~Undecodable(r)}}
         ELSE {model (+) LoadedEntries(table)}

LoadPolicy(fault) ==
    /\ model' \in LoadPolicyModels(fault)
    /\ filtered' = IF LoadPolicyErr(fault) = Nil THEN FALSE ELSE filtered
    /\ load' = [op |-> "LoadPolicy", err |-> LoadPolicyErr(fault)]
    /\ UNCHANGED <<table, call, before, args, lines, db>>

\* The caller takes the results and drops its model before its next call.
Return ==
    /\ ~Idle
    /\ call' = NoCall
    /\ load' = NoLoad
    /\ model' = EmptyBag
    /\ before' = table
    /\ UNCHANGED <<table, filtered, args, lines, db>>

Next ==
    \/ Idle /\ \E ptype \in PTypes, rule \in Rules : AddPolicy(ptype, rule)
    \/ Idle /\ \E ptype \in PTypes, rules \in Batches : AddPolicies(ptype, rules, NoFault)
    \/ Idle /\ \E ptype \in PTypes, rule \in Rules : RemovePolicy(ptype, rule)
    \/ Idle /\ \E ptype \in PTypes, rules \in Batches : RemovePolicies(ptype, rules, NoFault)
    \/ Idle /\ \E ptype \in PTypes, fieldIndex \in FieldIndexes, fieldValues \in FilterValues :
                  RemoveFilteredPolicy(ptype, fieldIndex, fieldValues, NoFault)
    \/ Idle /\ \E m \in Snapshots : \E fault \in SaveFaults(m) : SavePolicy(m, fault)
    \/ load = NoLoad /\ LoadPolicy(NoFault)
    \/ Return

Spec == Init /\ [][Next]_vars

----------------------------------------------------------------------------
(* Codec specification: one AddPolicy of any tuple of up to six entries,   *)
(* into a store that holds at most one earlier row, and then a load.       *)

CodecSeeds == {{}} \cup {{savePolicyLine(P, r)} : r \in {<<A>>, <<A, E>>, <<E, A>>}}

CodecInit ==
    /\ table \in CodecSeeds
    /\ filtered = FALSE
    /\ model = EmptyBag
    /\ load = NoLoad
    /\ call = NoCall
    /\ before = table
    /\ args = <<>>
    /\ lines = <<>>
    /\ db = "open"

CodecNext ==
    \/ Idle /\ \E ptype \in PTypes, rule \in CodecRules : AddPolicy(ptype, rule)
    \/ load = NoLoad /\ LoadPolicy(NoFault)

CodecSpec == CodecInit /\ [][CodecNext]_vars

----------------------------------------------------------------------------
(* Identity specification: savePolicyLine applied to two argument pairs.   *)

IdInit ==
    /\ table = {}
    /\ filtered = FALSE
    /\ model = EmptyBag
    /\ load = NoLoad
    /\ call = NoCall
    /\ before = {}
    /\ args \in IdInputs \X IdInputs
    /\ lines = <<>>
    /\ db = "open"

BuildLines ==
    /\ lines = <<>>
    /\ lines' = [i \in 1..Len(args) |-> savePolicyLine(args[i].ptype, args[i].rule)]
    /\ UNCHANGED <<table, filtered, model, load, call, before, args, db>>

IdNext == BuildLines

IdSpec == IdInit /\ [][IdNext]_vars

----------------------------------------------------------------------------
(* Filtered load *)

\* One section of a Filter: a []string that is nil (absent) or holds values.
Absent == [present |-> FALSE, values |-> <<>>]
FilterArgs == {Absent} \cup {[present |-> TRUE, values |-> v] : v \in FilterValues}

\* The filter argument: nil, a value that is not a *Filter, or a *Filter.
Filters ==
    {[kind |-> k, P |-> Absent, G |-> Absent] : k \in {"nil", "invalid"}}
        \cup {[kind |-> "filter", P |-> p, G |-> g] : p \in FilterArgs, g \in FilterArgs}

\* buildQuery fails on a non-empty value past the sixth.
BuildQueryFails(values) ==
    \E i \in 1..Len(values) : values[i] # E /\ i > NumFields

\* The rows the query of buildQuery selects: those of the rule type whose
\* slot i equals values[i] for every non-empty values[i].
FilterSelect(rows, ptype, values) ==
    {r \in rows :
        /\ r.Ptype = ptype
        /\ \A i \in 1..Len(values) :
              (values[i] # E /\ i <= NumFields) => r.V[i] = values[i]}

\* A variant of SectionRows in which a nil section selects as an empty one.
SectionRowsNilIsEmpty(rows, ptype, arg) == FilterSelect(rows, ptype, arg.values)

\* The rows one section of the filter loads: none when the section is nil.
SectionRows(rows, ptype, arg) ==
    IF arg.present THEN FilterSelect(rows, ptype, arg.values) ELSE {}

\* What loadFilteredPolicy leaves: the model and the error returned.  The
\* rows of "p" are selected and appended before the query of "g" is built.
loadFilteredPolicy(filter, fault) ==
    LET failP == filter.P.present
                    /\ (BuildQueryFails(filter.P.values)
                            \/ (fault.at = "select" /\ fault.i = 1))
        failG == filter.G.present
                    /\ (BuildQueryFails(filter.G.values)
                            \/ (fault.at = "select" /\ fault.i = 2))
        withP == model (+) LoadedEntries(SectionRows(table, P, filter.P))
        withG == withP (+) LoadedEntries(SectionRows(table, G, filter.G))
    IN  IF failP THEN [model |-> model, err |-> "error"]
        ELSE IF failG THEN [model |-> withP, err |-> "error"]
        ELSE [model |-> withG, err |-> Nil]

\* A variant of FilteredAfter that sets the flag after a nil filter too.
FilteredAfterAnyLoad(kind, err, flag) ==
    IF err = Nil THEN TRUE ELSE flag

\* The flag after a load through LoadFilteredPolicy that returned err.
FilteredAfter(kind, err, flag) ==
    IF err # Nil THEN flag
    ELSE IF kind = "nil" THEN FALSE
    ELSE TRUE

LoadFilteredPolicy(filter, fault) ==
    LET err == CASE filter.kind = "nil" -> LoadPolicyErr(fault)
                 [] filter.kind = "invalid" -> "error"
                 [] OTHER -> loadFilteredPolicy(filter, fault).err
    IN  /\ model' \in CASE filter.kind = "nil" -> LoadPolicyModels(fault)
                        [] filter.kind = "invalid" -> {model}
                        [] OTHER -> {loadFilteredPolicy(filter, fault).model}
        /\ filtered' = FilteredAfter(filter.kind, err, filtered)
        /\ load' = [op |-> "LoadFilteredPolicy", filter |-> filter,
                    fault |-> fault, err |-> err]
        /\ UNCHANGED <<table, call, before, args, lines, db>>

----------------------------------------------------------------------------
(* Updates *)

\* The condition queryString builds from a record: the rule type, and
\* equality on every slot up to the last non-empty one of the record.
queryString(r, c) ==
    /\ r.Ptype = c.Ptype
    /\ \A i \in 1..LastIndex(c.V) : r.V[i] = c.V[i]

\* The tuple toStringPolicy builds from a record.
toStringPolicy(c) ==
    (IF c.Ptype # E THEN <<c.Ptype>> ELSE <<>>)
        \o [i \in 1..LastIndex(c.V) |-> c.V[i]]

\* UPDATE ... SET ptype, v0..v5 from newLine WHERE queryString(oldLine): the
\* statement sets the columns that are not the primary key, so a row that
\* matches keeps its id.
UpdateWhere(rows, oldLine, newLine) ==
    {IF queryString(r, oldLine)
        THEN [ID |-> r.ID, Ptype |-> newLine.Ptype, V |-> newLine.V]
        ELSE r : r \in rows}

\* The updates of pairs 1..n in order.
RECURSIVE UpdateLines(_, _, _, _)
UpdateLines(rows, oldLines, newLines, n) ==
    IF n = 0 THEN rows
    ELSE UpdateWhere(UpdateLines(rows, oldLines, newLines, n - 1),
                     oldLines[n], newLines[n])

\* The places where the storage may fail updatePolicies: db.Begin, the
\* update of pair i, tx.Commit; or nowhere.
UpdateFaults(n) ==
    {[at |-> a, i |-> 0] : a \in {"none", "begin", "commit"}}
        \cup {[at |-> "update", i |-> i] : i \in 1..n}

\* The rows updatePolicies leaves.  An update that matches no row is no
\* error of the statement, and the number of rows affected is not read.
updatePolicies(oldLines, newLines, fault) ==
    LET n == CASE fault.at = "begin" -> 0
               [] fault.at = "update" -> fault.i - 1
               [] OTHER -> Len(oldLines)
        tx == UpdateLines(table, oldLines, newLines, n)
    IN  TxEnd(fault.at = "none", table, tx)

UpdatePolicies(ptype, oldRules, newRules, fault) ==
    LET oldLines == [i \in 1..Len(oldRules) |-> savePolicyLine(ptype, oldRules[i])]
        newLines == [i \in 1..Len(newRules) |-> savePolicyLine(ptype, newRules[i])]
    IN  /\ table' = updatePolicies(oldLines, newLines, fault)
        /\ call' = [op |-> "UpdatePolicies", ptype |-> ptype, oldRules |-> oldRules,
                    newRules |-> newRules, fault |-> fault, err |-> ErrOf(fault)]
        /\ before' = table
        /\ UNCHANGED <<filtered, model, load, args, lines, db>>

UpdatePolicy(ptype, oldRule, newPolicy, fault) ==
    UpdatePolicies(ptype, <<oldRule>>, <<newPolicy>>, fault)

\* The record UpdateFilteredPolicies fills from its filter arguments.
FilterLine(ptype, fieldIndex, fieldValues) ==
    [ID    |-> E,
     Ptype |-> ptype,
     V     |-> [j \in 1..NumFields |->
                  IF fieldIndex <= j - 1 /\ j - 1 < fieldIndex + Len(fieldValues)
                  THEN fieldValues[j - fieldIndex] ELSE E]]

\* Iterations 1..n of the loop over newP: the delete of the rows that match
\* the filter record, then the insert of newP[n].
RECURSIVE FilteredUpdateSteps(_, _, _, _)
FilteredUpdateSteps(rows, line, newP, n) ==
    IF n = 0 THEN rows
    ELSE LET prev == FilteredUpdateSteps(rows, line, newP, n - 1)
         IN  InsertDoNothing({r \in prev : ~queryString(r, line)}, newP[n])

\* The places where the storage may fail UpdateFilteredPolicies: the Begin,
\* the delete or the insert of iteration i, the Commit; or nowhere.
FilteredUpdateFaults(n) ==
    {[at |-> a, i |-> 0] : a \in {"none", "begin", "commit"}}
        \cup {[at |-> a, i |-> i] : a \in {"delete", "insert"}, i \in 1..n}

UpdateFilteredPolicies(ptype, newPolicies, fieldIndex, fieldValues, fault) ==
    LET line == FilterLine(ptype, fieldIndex, fieldValues)
        newP == [i \in 1..Len(newPolicies) |-> savePolicyLine(ptype, newPolicies[i])]
        \* the delete names no RETURNING clause: no row is scanned into oldP
        oldP == <<>>
        n == CASE fault.at = "begin" -> 0
               [] fault.at \in {"delete", "insert"} -> fault.i - 1
               [] OTHER -> Len(newP)
        tx == FilteredUpdateSteps(table, line, newP, n)
        rows == TxEnd(fault.at = "none", table, tx)
    IN  /\ Cardinality(rows) <= MaxRows
        /\ table' = rows
        /\ call' = [op |-> "UpdateFilteredPolicies", ptype |-> ptype,
                    newPolicies |-> newPolicies, fieldIndex |-> fieldIndex,
                    fieldValues |-> fieldValues, fault |-> fault,
                    ret |-> [i \in 1..Len(oldP) |-> toStringPolicy(oldP[i])],
                    err |-> ErrOf(fault)]
        /\ before' = table
        /\ UNCHANGED <<filtered, model, load, args, lines, db>>

----------------------------------------------------------------------------
(* Close *)

\* The receivers Close is called on: a nil *Adapter, an Adapter whose db is
\* nil, and the adapter of this model.
Receivers == {"nil", "nohandle", "adapter"}

\* db.Close returns an error on a handle that is closed already; Close does
\* not clear a.db.
Close(receiver) ==
    /\ call' = [op |-> "Close", receiver |-> receiver,
                err |-> IF receiver = "adapter" /\ db = "closed" THEN "error" ELSE Nil]
    /\ db' = IF receiver = "adapter" THEN "closed" ELSE db
    /\ before' = table
    /\ UNCHANGED <<table, filtered, model, load, args, lines>>

----------------------------------------------------------------------------
(* Adapter specification: an adapter created over a table that earlier     *)
(* adds have filled; full and filtered loads, every mutation, and Close.   *)

\* The tuples of the rows the table holds at creation, and of the calls.
URules == {<<A>>, <<A, A>>, <<B>>}

AdapterSeeds ==
    {t \in SUBSET {savePolicyLine(ptype, rule) : ptype \in PTypes, rule \in URules} :
        Cardinality(t) <= MaxRows}

\* The snapshots of one tuple, or none.
USnapshots == {m \in Snapshots : Len(m.p) + Len(m.g) <= 1}

AdapterInit ==
    /\ table \in AdapterSeeds
    /\ filtered = FALSE
    /\ model = EmptyBag
    /\ load = NoLoad
    /\ call = NoCall
    /\ before = table
    /\ args = <<>>
    /\ lines = <<>>
    /\ db = "open"

\* The adapter is open and the caller holds no result of an earlier call.
Ready == Idle /\ db = "open"

AdapterNext ==
    \/ Ready /\ \E fault \in LoadFaults : LoadPolicy(fault)
    \/ Ready /\ \E filter \in Filters, fault \in LoadFaults :
                    LoadFilteredPolicy(filter, fault)
    \/ call = NoCall /\ Return
    \/ Ready /\ \E ptype \in PTypes, rule \in URules : AddPolicy(ptype, rule)
    \/ Ready /\ \E ptype \in PTypes, rule \in URules, fault \in TxFaults :
                    AddPolicies(ptype, <<rule>>, fault)
    \/ Ready /\ \E ptype \in PTypes, rule \in URules : RemovePolicy(ptype, rule)
    \/ Ready /\ \E ptype \in PTypes, rule \in URules, fault \in TxFaults :
                    RemovePolicies(ptype, <<rule>>, fault)
    \/ Ready /\ \E ptype \in PTypes, fieldValues \in {<<>>, <<A>>}, fault \in TxFaults :
                    RemoveFilteredPolicy(ptype, 0, fieldValues, fault)
    \/ Ready /\ \E m \in USnapshots : \E fault \in SaveFaults(m) : SavePolicy(m, fault)
    \/ Ready /\ \E ptype \in PTypes, oldRule \in URules, newPolicy \in URules,
                    fault \in UpdateFaults(1) :
                    UpdatePolicy(ptype, oldRule, newPolicy, fault)
    \/ Ready /\ \E ptype \in PTypes, rule \in URules, fault \in FilteredUpdateFaults(1) :
                    UpdateFilteredPolicies(ptype, <<rule>>, 0, <<A>>, fault)
    \/ /\ load = NoLoad
       /\ call = NoCall \/ call.op = "Close"
       /\ \E receiver \in Receivers : Close(receiver)

AdapterSpec == AdapterInit /\ [][AdapterNext]_vars

----------------------------------------------------------------------------
(* Update specification: one batch mutation, with the storage failing at   *)
(* any place or nowhere, on a table that earlier adds have filled.         *)

UBatches == TuplesUpTo(URules, MaxBatch) \ {<<>>}

\* The tuples of the update calls.
UpdRules == {<<A>>, <<B>>}

\* Old and new tuples, pair by pair.
UpdPairs ==
    {pr \in [olds : TuplesUpTo(UpdRules, MaxBatch), news : TuplesUpTo(UpdRules, MaxBatch)] :
        Len(pr.olds) = Len(pr.news) /\ Len(pr.olds) >= 1}

UFieldIndexes == {0, 1}

UpdateNext ==
    \/ Idle /\ \E ptype \in PTypes, rules \in UBatches, fault \in TxFaults :
                  AddPolicies(ptype, rules, fault)
    \/ Idle /\ \E ptype \in PTypes, rules \in UBatches, fault \in TxFaults :
                  RemovePolicies(ptype, rules, fault)
    \/ Idle /\ \E ptype \in PTypes, fieldIndex \in FieldIndexes,
                  fieldValues \in FilterValues, fault \in TxFaults :
                  RemoveFilteredPolicy(ptype, fieldIndex, fieldValues, fault)
    \/ Idle /\ \E ptype \in PTypes, pr \in UpdPairs :
                  \E fault \in UpdateFaults(Len(pr.olds)) :
                      UpdatePolicies(ptype, pr.olds, pr.news, fault)
    \/ Idle /\ \E ptype \in PTypes, newPolicies \in TuplesUpTo(UpdRules, MaxBatch),
                  fieldIndex \in UFieldIndexes, fieldValues \in FilterValues :
                  \E fault \in FilteredUpdateFaults(Len(newPolicies)) :
                      UpdateFilteredPolicies(ptype, newPolicies, fieldIndex, fieldValues, fault)

UpdateSpec == AdapterInit /\ [][UpdateNext]_vars

----------------------------------------------------------------------------
(* Concurrent specification: the statements of one SavePolicy, step by     *)
(* step, and a LoadPolicy of another caller between any two of them.  The  *)
(* storage gives a statement outside a transaction the committed rows.     *)

\* A variant of OnTx in which the statement runs on a.db: its result is
\* committed at once.
OnDb(rows, tx, result) == [table |-> result, tx |-> result]

\* A statement of SavePolicy runs on tx: its result is in the transaction,
\* and the committed rows stay as they are.
OnTx(rows, tx, result) == [table |-> rows, tx |-> result]

\* db.Begin succeeded: the transaction sees the committed rows.
SaveBegin(m) ==
    /\ call' = [op |-> "SavePolicy", model |-> m, pc |-> "delete", i |-> 1,
                tx |-> table, err |-> Nil]
    /\ before' = table
    /\ UNCHANGED <<table, filtered, model, load, args, lines, db>>

\* The delete of every row.
SaveDelete ==
    LET res == OnTx(table, call.tx, DeleteAll(call.tx))
    IN  /\ call.pc = "delete"
        /\ table' = res.table
        /\ call' = [call EXCEPT !.pc = "insert", !.tx = res.tx]
        /\ UNCHANGED <<filtered, model, load, before, args, lines, db>>

\* The insert of line i, or the end of the loop.
SaveInsert ==
    LET ls == SaveLines(call.model)
        res == OnTx(table, call.tx, InsertDoNothing(call.tx, ls[call.i]))
    IN  /\ call.pc = "insert"
        /\ IF call.i <= Len(ls)
           THEN /\ table' = res.table
                /\ call' = [call EXCEPT !.i = call.i + 1, !.tx = res.tx]
           ELSE /\ table' = table
                /\ call' = [call EXCEPT !.pc = "commit"]
        /\ UNCHANGED <<filtered, model, load, before, args, lines, db>>

\* tx.Commit succeeded.
SaveCommit ==
    /\ call.pc = "commit"
    /\ table' = TxEnd(TRUE, table, call.tx)
    /\ call' = [call EXCEPT !.pc = "done"]
    /\ UNCHANGED <<filtered, model, load, before, args, lines, db>>

\* The statement at hand, or the Commit, failed: SavePolicy returns the
\* error and the deferred tx.Close ends the transaction.
SaveFail ==
    /\ call.pc \in {"delete", "insert", "commit"}
    /\ table' = TxEnd(FALSE, table, call.tx)
    /\ call' = [call EXCEPT !.pc = "done", !.err = "error"]
    /\ UNCHANGED <<filtered, model, load, before, args, lines, db>>

Saving == call.op = "SavePolicy"

ConcNext ==
    \/ call = NoCall /\ \E m \in Snapshots : SaveBegin(m)
    \/ Saving /\ SaveDelete
    \/ Saving /\ SaveInsert
    \/ Saving /\ SaveCommit
    \/ Saving /\ SaveFail
    \/ Saving /\ load = NoLoad /\ LoadPolicy(NoFault)

ConcSpec == AdapterInit /\ [][ConcNext]_vars

----------------------------------------------------------------------------
(* Load specification: loads of a table that holds rows of the rule types  *)
(* "p", "g", "p2" and "g2", some with a value that does not decode, with   *)
(* filters of up to seven values.                                          *)

P2 == <<"p", "2">>
G2 == <<"g", "2">>

\* The value of one quote.
Q == <<Quote>>

LoadRules == {<<A>>, <<Q>>}

LoadSeeds ==
    {t \in SUBSET {savePolicyLine(ptype, rule) : ptype \in {P, G, P2, G2}, rule \in LoadRules} :
        Cardinality(t) <= MaxRows}

\* Lists of seven values: the seventh empty or not.
WideValues == {<<E, E, E, E, E, E, E>>, <<A, E, E, E, E, E, E>>, <<E, E, E, E, E, E, A>>}

LoadArgs ==
    {Absent} \cup {[present |-> TRUE, values |-> v] : v \in {<<>>, <<A>>} \cup WideValues}

LoadFilters ==
    {[kind |-> k, P |-> Absent, G |-> Absent] : k \in {"nil", "invalid"}}
        \cup {[kind |-> "filter", P |-> p, G |-> g] : p \in LoadArgs, g \in LoadArgs}

LoadInit ==
    /\ table \in LoadSeeds
    /\ filtered = FALSE
    /\ model = EmptyBag
    /\ load = NoLoad
    /\ call = NoCall
    /\ before = table
    /\ args = <<>>
    /\ lines = <<>>
    /\ db = "open"

LoadNext ==
    \/ Ready /\ \E fault \in LoadFaults : LoadPolicy(fault)
    \/ Ready /\ \E filter \in LoadFilters, fault \in LoadFaults :
                    LoadFilteredPolicy(filter, fault)
    \/ call = NoCall /\ Return

LoadSpec == LoadInit /\ [][LoadNext]_vars

----------------------------------------------------------------------------
(* Race specification: two calls of two callers, statement by statement:   *)
(* two AddPolicy of one tuple, or an UpdatePolicy and a RemovePolicy of    *)
(* the old tuple.  A statement on a.db is committed when it ends; the      *)
(* rows a transaction wrote stay locked until it ends.                     *)

\* A variant of InsertErr without ON CONFLICT: a row of that id is an error.
InsertErrUnique(rows, line) ==
    IF \E r \in rows : r.ID = line.ID THEN "error" ELSE Nil

\* The error of the insert of AddPolicy: with ON CONFLICT DO NOTHING a row
\* of that id is no error.
InsertErr(rows, line) == Nil

\* A variant of UpdateErr that reports an update of no row.
UpdateErrNoRows(rows, oldLine) ==
    IF \E r \in rows : queryString(r, oldLine) THEN Nil ELSE "error"

\* The error of the Update of updatePolicies: an update of no row is none.
UpdateErr(rows, oldLine) == Nil

\* Two callers call AddPolicy(ptype, rule).
RaceAdds(ptype, rule) ==
    /\ call' = [op |-> "Race", kind |-> "add", ptype |-> ptype, rule |-> rule,
                newRule |-> rule, pc |-> <<"begin", "begin">>,
                err |-> <<Nil, Nil>>, tx |-> table, first |-> 0]
    /\ before' = table
    /\ UNCHANGED <<table, filtered, model, load, args, lines, db>>

\* Caller 1 calls UpdatePolicy(ptype, oldRule, newPolicy) and caller 2
\* RemovePolicy(ptype, oldRule), on a table that holds the row of oldRule.
RaceUpdateRemove(ptype, oldRule, newPolicy) ==
    /\ savePolicyLine(ptype, oldRule) \in table
    /\ call' = [op |-> "Race", kind |-> "update", ptype |-> ptype, rule |-> oldRule,
                newRule |-> newPolicy, pc |-> <<"begin", "begin">>,
                err |-> <<Nil, Nil>>, tx |-> table, first |-> 0]
    /\ before' = table
    /\ UNCHANGED <<table, filtered, model, load, args, lines, db>>

\* The Begin of RunInTransaction, or of updatePolicies.
TxBegin(i) ==
    /\ call.pc[i] = "begin"
    /\ call' = [call EXCEPT !.pc[i] = "stmt"]
    /\ UNCHANGED <<table, filtered, model, load, before, args, lines, db>>

\* The insert of AddPolicy, on a.db.
AddInsert(i) ==
    LET line == savePolicyLine(call.ptype, call.rule)
    IN  /\ call.kind = "add"
        /\ call.pc[i] = "stmt"
        /\ table' = InsertDoNothing(table, line)
        /\ call' = [call EXCEPT !.pc[i] = "commit", !.err[i] = InsertErr(table, line),
                                !.first = IF call.first = 0 THEN i ELSE call.first]
        /\ UNCHANGED <<filtered, model, load, before, args, lines, db>>

\* The Update of updatePolicies, on tx.
UpdateStmt ==
    LET oldLine == savePolicyLine(call.ptype, call.rule)
        newLine == savePolicyLine(call.ptype, call.newRule)
    IN  /\ call.kind = "update"
        /\ call.pc[1] = "stmt"
        /\ call' = [call EXCEPT !.pc[1] = "commit",
                                !.err[1] = UpdateErr(table, oldLine),
                                !.tx = UpdateWhere(table, oldLine, newLine),
                                !.first = IF call.first = 0 THEN 1 ELSE call.first]
        /\ UNCHANGED <<table, filtered, model, load, before, args, lines, db>>

\* The delete of RemovePolicy, on a.db; it waits while the transaction of
\* the update holds the row it wrote.
RemoveDelete ==
    LET line == savePolicyLine(call.ptype, call.rule)
    IN  /\ call.kind = "update"
        /\ call.pc[2] = "stmt"
        /\ call.pc[1] # "commit"
        /\ table' = DeleteByPK(table, <<line>>)
        /\ call' = [call EXCEPT !.pc[2] = "commit",
                                !.first = IF call.first = 0 THEN 2 ELSE call.first]
        /\ UNCHANGED <<filtered, model, load, before, args, lines, db>>

\* The Commit: of the transaction of updatePolicies, which is rolled back
\* instead when its Update returned an error, or of a transaction of
\* RunInTransaction, in which no statement ran.
TxCommit(i) ==
    /\ call.pc[i] = "commit"
    /\ table' = IF call.kind = "update" /\ i = 1
                THEN TxEnd(call.err[1] = Nil, table, call.tx)
                ELSE table
    /\ call' = [call EXCEPT !.pc[i] = "done"]
    /\ UNCHANGED <<filtered, model, load, before, args, lines, db>>

Racing == call.op = "Race"

RaceNext ==
    \/ call = NoCall /\ \E ptype \in PTypes, rule \in URules : RaceAdds(ptype, rule)
    \/ call = NoCall /\ \E ptype \in PTypes, oldRule \in URules, newPolicy \in URules :
                            RaceUpdateRemove(ptype, oldRule, newPolicy)
    \/ Racing /\ \E i \in 1..2 : TxBegin(i)
    \/ Racing /\ \E i \in 1..2 : AddInsert(i)
    \/ Racing /\ UpdateStmt
    \/ Racing /\ RemoveDelete
    \/ Racing /\ \E i \in 1..2 : TxCommit(i)

RaceSpec == AdapterInit /\ [][RaceNext]_vars

----------------------------------------------------------------------------
(* Properties of the codec *)

Loaded == load.op = "LoadPolicy" /\ load.err = Nil
Added == call.op = "AddPolicy" /\ call.err = Nil

\* The model holds the tuple rule under the rule type ptype.
Holds(ptype, rule) == BagIn([key |-> ptype, rule |-> rule], model)

RECURSIVE DropTrailingEmpties(_)
DropTrailingEmpties(t) ==
    IF t = <<>> \/ t[Len(t)] # E THEN t
    ELSE DropTrailingEmpties(SubSeq(t, 1, Len(t) - 1))

\* C1: AddPolicy of a tuple of 1..6 entries whose last entry is not empty,
\* followed by LoadPolicy into an empty model, puts the very same tuple,
\* embedded empty entries included, under its rule type.
C1_RoundTripEmbeddedEmpties ==
    (Added /\ Loaded /\ call.rule # <<>> /\ call.rule[Len(call.rule)] # E)
        => Holds(call.ptype, call.rule)

C1_Witness ==
    /\ Added /\ Loaded
    /\ Len(call.rule) = NumFields
    /\ call.rule[NumFields] # E
    /\ \E i \in 1..(NumFields - 1) : call.rule[i] = E
    /\ Holds(call.ptype, call.rule)

C3_TrailingEmptiesKept ==
    (Added /\ Loaded /\ Len(call.rule) = 3 /\ call.rule[1] # E /\ call.rule[3] = E)
        => Holds(call.ptype, call.rule)

----------------------------------------------------------------------------
(* Properties of the identity *)

Built == Len(lines) = 2

SameFields == lines[1].Ptype = lines[2].Ptype /\ lines[1].V = lines[2].V

HasSep(s) == \E i \in 1..Len(s) : s[i] = ","

SepFree ==
    \A i \in 1..Len(args) :
        /\ ~HasSep(args[i].ptype)
        /\ \A j \in 1..Len(args[i].rule) : ~HasSep(args[i].rule[j])

\* C5: two records of savePolicyLine with the same rule type and the same
\* values in all six slots carry the same identity, whatever the lengths of
\* the tuples they were built from.
C5_IdentityDeterminism == (Built /\ SameFields) => lines[1].ID = lines[2].ID

\* C6 as stated: two records that differ in the rule type or in a slot have
\* different identities, for any field values.
C6_DistinctAnyStrings == (Built /\ ~SameFields) => lines[1].ID # lines[2].ID

\* C6 as amended: two records that differ in the rule type or in a slot,
\* built from a rule type and values that do not hold the separator ",",
\* have different identities.
C6_DistinctSepFree ==
    (Built /\ SepFree /\ ~SameFields) => lines[1].ID # lines[2].ID

C6_Witness ==
    /\ Built /\ SepFree
    /\ lines[1].Ptype = lines[2].Ptype
    /\ lines[1].V[2] = E /\ lines[2].V[2] # E
    /\ \A i \in (1..NumFields) \ {2} : lines[1].V[i] = lines[2].V[i]
    /\ lines[1].ID # lines[2].ID

----------------------------------------------------------------------------
(* Properties of the store operations *)

\* The rows of rows holding the rule type and the six values of line.
RowsWithContent(rows, line) ==
    {r \in rows : r.Ptype = line.Ptype /\ r.V = line.V}

\* C4: a second AddPolicy of a tuple whose row an earlier AddPolicy left in
\* the store returns no error and leaves exactly one row with that content,
\* which a following LoadPolicy shows once; and a successful AddPolicies
\* leaves one row for the identity of each tuple of the batch and every
\* earlier row as it was.
C4_IdempotentInsert ==
    /\ (call.op = "AddPolicy" /\ savePolicyLine(call.ptype, call.rule) \in before)
          => LET line == savePolicyLine(call.ptype, call.rule)
             IN  /\ call.err = Nil
                 /\ Cardinality(RowsWithContent(table, line)) = 1
                 /\ Loaded => CopiesIn(LoadPolicyLine(String(line)), model) = 1
    /\ (call.op = "AddPolicies" /\ call.err = Nil)
          => /\ before \subseteq table
             /\ \A i \in 1..Len(call.rules) :
                   {r \in table : r.ID = policyID(call.ptype, call.rules[i])}
                       = {savePolicyLine(call.ptype, call.rules[i])}

\* The (rule type, tuple) pairs of a snapshot.
SnapshotTuples(m) ==
    {<<P, m.p[i]>> : i \in 1..Len(m.p)} \cup {<<G, m.g[i]>> : i \in 1..Len(m.g)}

\* C7: after a SavePolicy that returned no error the table holds one row for
\* each distinct identity among the snapshot's tuples, each row built from a
\* tuple of the snapshot, and no earlier row that the snapshot does not hold;
\* after an empty snapshot the table is empty.
C7_SaveReplacesStore ==
    (call.op = "SavePolicy" /\ call.err = Nil)
        => LET tuples == SnapshotTuples(call.model)
               ids == {policyID(t[1], t[2]) : t \in tuples}
           IN  /\ {r.ID : r \in table} = ids
               /\ Cardinality(table) = Cardinality(ids)
               /\ \A r \in table : \E t \in tuples : r = savePolicyLine(t[1], t[2])
               /\ \A r \in before : r.ID \notin ids => r \notin table
               /\ tuples = {} => table = {}

C7_Witness ==
    /\ call.op = "SavePolicy" /\ call.err = Nil
    /\ Len(call.model.p) = 2 /\ call.model.p[1] = call.model.p[2]
    /\ \E r \in before : r.ID # policyID(P, call.model.p[1])
    /\ table = {savePolicyLine(P, call.model.p[1])}

\* C8: after a SavePolicy that returned an error, whether db.Begin, the
\* delete, one of the inserts or the commit failed, the table holds the rows
\* it held before the call.
C8_AtomicSave ==
    (call.op = "SavePolicy" /\ call.err # Nil) => table = before

C8_Witness ==
    /\ call.op = "SavePolicy" /\ call.err # Nil
    /\ call.fault.at = "insert" /\ call.fault.i = 2
    /\ Len(call.model.p) = 2
    /\ before # {}
    /\ savePolicyLine(P, call.model.p[1]) \notin before
    /\ table = before

\* C9: RemovePolicy returns no error and deletes the row whose identity is
\* the one computed from its rule type and tuple, and RemovePolicies the rows
\* whose identities are those of its tuples; rows of any other identity stay,
\* and the table is unchanged when no such row is stored.
C9_RemoveByIdentity ==
    /\ call.op = "RemovePolicy"
          => /\ call.err = Nil
             /\ table = {r \in before : r.ID # policyID(call.ptype, call.rule)}
    /\ call.op = "RemovePolicies"
          => /\ call.err = Nil
             /\ table = {r \in before : \A i \in 1..Len(call.rules) :
                            r.ID # policyID(call.ptype, call.rules[i])}

C9_Witness ==
    /\ call.op = "RemovePolicies" /\ call.err = Nil
    /\ Len(call.rules) = 2
    /\ savePolicyLine(call.ptype, call.rules[1]) \in before
    /\ \A r \in before : r.ID # policyID(call.ptype, call.rules[2])
    /\ Cardinality(before) = 2 /\ Cardinality(table) = 1
    /\ \E r \in table : RowsWithContent(before, r) # {r}

\* The rows a filter of values starting at slot k (counted from 0) selects:
\* those of the rule type whose slot k+i holds values[i] for each non-empty
\* values[i].
Selected(rows, ptype, k, values) ==
    {r \in rows : /\ r.Ptype = ptype
                  /\ \A i \in 1..Len(values) :
                        values[i] # E => r.V[k + i] = values[i]}

\* C10: RemoveFilteredPolicy with values that address slots within 0..5
\* deletes the rows its filter selects and no other row; when every value is
\* empty, or there is none, it deletes every row of the rule type.
C10_FilteredRemove ==
    (call.op = "RemoveFilteredPolicy"
        /\ call.fieldIndex + Len(call.fieldValues) <= NumFields)
        => /\ table = before \ Selected(before, call.ptype, call.fieldIndex,
                                        call.fieldValues)
           /\ (\A i \in 1..Len(call.fieldValues) : call.fieldValues[i] = E)
                 => table = {r \in before : r.Ptype # call.ptype}

C10_Witness ==
    /\ call.op = "RemoveFilteredPolicy"
    /\ call.fieldIndex = 4 /\ call.fieldValues = <<E, A>>
    /\ \E r \in before : r.Ptype = call.ptype /\ r.V[5] = E /\ r.V[6] = A /\ r \notin table
    /\ \E r \in before : r.Ptype = call.ptype /\ r \in table

----------------------------------------------------------------------------
(* Properties of the loads *)

\* A row agrees with a value list: slot i equals every non-empty values[i].
Matches(r, values) ==
    \A i \in 1..Len(values) : values[i] # E => r.V[i] = values[i]

\* The rows a filter asks for: of each rule type, those that agree with the
\* value list of its section, and none when the section is absent.
Asked(rows, f) ==
    {r \in rows :
        \/ r.Ptype = P /\ f.P.present /\ Matches(r, f.P.values)
        \/ r.Ptype = G /\ f.G.present /\ Matches(r, f.G.values)}

FilteredLoaded ==
    /\ load.op = "LoadFilteredPolicy"
    /\ load.filter.kind = "filter"
    /\ load.err = Nil

\* C11: a LoadFilteredPolicy with a filter {P, G} that returns no error has
\* appended to the (empty) model exactly the decoded rows of type "p" that
\* agree with P on every non-empty value and the rows of type "g" that agree
\* with G; a section that is nil contributes no row, and a section that is
\* present and empty contributes every row of its type.
C11_FilteredLoad ==
    FilteredLoaded => model = LoadedEntries(Asked(table, load.filter))

\* A filter whose P is <<"", "a">> and whose G is nil, on a table holding a
\* row of type "g" and a row of type "p" with "a" in its second slot: the
\* load appended the one "p" row.
C11_Witness ==
    /\ FilteredLoaded
    /\ load.filter.P = [present |-> TRUE, values |-> <<E, A>>]
    /\ ~load.filter.G.present
    /\ \E r \in table : r.Ptype = G
    /\ \E r \in table : r.Ptype = P /\ r.V[2] = A
    /\ BagCardinality(model) = 1

\* The load a step made, when the step is a load.
LoadStep == load' # load /\ load'.op # "none"

\* C12: the flag is FALSE on a new adapter; a step that is a successful
\* LoadPolicy, or a successful LoadFilteredPolicy with a nil filter, leaves it
\* FALSE; a successful LoadFilteredPolicy with a filter leaves it TRUE; every
\* other step (a mutation, Close, a load that returned an error) leaves it as
\* it was.
C12_FilteredFlag ==
    /\ filtered = FALSE
    /\ [][ IF LoadStep /\ load'.err = Nil
           THEN filtered' = (load'.op = "LoadFilteredPolicy"
                                /\ load'.filter.kind = "filter")
           ELSE filtered' = filtered ]_vars

\* The flag is TRUE after a mutation: it was set by a filtered load and the
\* mutation kept it.
C12_Witness ==
    /\ filtered = TRUE
    /\ call.op = "UpdateFilteredPolicies"
    /\ call.err = Nil

----------------------------------------------------------------------------
(* Properties of the updates *)

Updated == call.op = "UpdatePolicies"

\* The records of the old and the new tuples of the update that was called.
OldLine(i) == savePolicyLine(call.ptype, call.oldRules[i])
NewLine(i) == savePolicyLine(call.ptype, call.newRules[i])

\* A row holds the rule type and the six slots of a record.
SameContent(r, line) == r.Ptype = line.Ptype /\ r.V = line.V

\* The rows as the updates of pairs 1..n should leave them: the row of each
\* old tuple replaced by the record of the new tuple.
RECURSIVE Replaced(_, _)
Replaced(rows, n) ==
    IF n = 0 THEN rows
    ELSE LET prev == Replaced(rows, n - 1)
         IN  {r \in prev : ~SameContent(r, OldLine(n))} \cup {NewLine(n)}

\* C13: an UpdatePolicies in which some pair finds, at its turn, no stored
\* row with the old tuple's rule type and six slots returns an error and
\* leaves the table as it was.
C13_UpdateRequiresMatch ==
    (/\ Updated
     /\ \E i \in 1..Len(call.oldRules) :
            \A r \in Replaced(before, i - 1) : ~SameContent(r, OldLine(i)))
        => (call.err # Nil /\ table = before)

\* C14: an UpdatePolicy modifies no row that differs from the old tuple's
\* record in the rule type or in any of the six slots.
C14_UpdateExactMatch ==
    (Updated /\ Len(call.oldRules) = 1)
        => \A r \in before : ~SameContent(r, OldLine(1)) => r \in table

\* C15: after an UpdatePolicies that returned no error and whose old tuples
\* were each stored at their turn, the table is the table before the call
\* with the row of each old tuple replaced by the record of the new tuple,
\* its six slots and its identity, and every other row as it was.
C15_UpdateEffect ==
    (/\ Updated
     /\ call.err = Nil
     /\ \A i \in 1..Len(call.oldRules) : OldLine(i) \in Replaced(before, i - 1))
        => table = Replaced(before, Len(call.oldRules))

\* C16: a batch mutation that returned an error left the table as it was
\* when the call was made.
C16_BatchAllOrNothing ==
    (/\ call.op \in {"AddPolicies", "RemovePolicies", "RemoveFilteredPolicy",
                      "UpdatePolicies", "UpdateFilteredPolicies"}
     /\ call.err # Nil)
        => table = before

FilteredUpdated == call.op = "UpdateFilteredPolicies" /\ call.err = Nil

\* C17: after an UpdateFilteredPolicies that returned no error the table
\* holds, for every new tuple, a row with its rule type and six slots.
C17_FilteredUpdateInserts ==
    FilteredUpdated
        => \A i \in 1..Len(call.newPolicies) :
              \E r \in table :
                  SameContent(r, savePolicyLine(call.ptype, call.newPolicies[i]))

\* C18: the tuples an UpdateFilteredPolicies returns with no error are those
\* of the rows it deleted: every row of the table before the call that is
\* gone is returned, and every tuple returned is that of a row the table
\* held before the call.
C18_FilteredUpdateReturnsDeleted ==
    FilteredUpdated
        => /\ \A r \in before \ table :
                \E i \in 1..Len(call.ret) : call.ret[i] = toStringPolicy(r)
           /\ \A i \in 1..Len(call.ret) :
                \E r \in before : call.ret[i] = toStringPolicy(r)

\* C19: every Close returns no error, whatever it is called on and however
\* many times.
C19_CloseIdempotent == call.op = "Close" => call.err = Nil

----------------------------------------------------------------------------
(* Properties of a load concurrent with a save *)

\* The rows of a snapshot: what a completed save leaves.
SavedRows(m) == InsertLines({}, SaveLines(m), Len(SaveLines(m)))

\* C20: a LoadPolicy that ran after a SavePolicy began has read either the
\* complete rows the table held before the save, or, the save being
\* committed, the complete rows of the snapshot; never the emptied table
\* nor a part of the new rows.
C20_NoHalfDoneSave ==
    (Saving /\ load.op = "LoadPolicy")
        => \/ model = LoadedEntries(before)
           \/ /\ call.pc = "done"
              /\ call.err = Nil
              /\ model = LoadedEntries(SavedRows(call.model))

\* A load is complete while the save has deleted the old rows and inserted
\* a new one in its transaction, not yet committed: the load read the old
\* rows.
C20_Witness ==
    /\ Saving
    /\ call.pc = "insert"
    /\ call.i = 2
    /\ before # {}
    /\ call.tx # before
    /\ load.op = "LoadPolicy"
    /\ model = LoadedEntries(before)
    /\ model # LoadedEntries(call.tx)

----------------------------------------------------------------------------
(* Properties of concurrent calls *)

RaceDone == Racing /\ call.pc = <<"done", "done">>

\* C21: when two concurrent AddPolicy calls of one rule type and tuple have
\* both returned, in whatever order their statements ran, both returned no
\* error and the table is the table a single AddPolicy leaves: the rows it
\* held before, and exactly one row of the tuple's identity.
C21_ConcurrentAddsBenign ==
    (RaceDone /\ call.kind = "add")
        => LET line == savePolicyLine(call.ptype, call.rule)
           IN  /\ call.err = <<Nil, Nil>>
               /\ table = InsertDoNothing(before, line)
               /\ Cardinality({r \in table : r.ID = line.ID}) = 1

\* Both adds returned on a table that did not hold the identity before: one
\* insert wrote the row and the other met it.
C21_Witness ==
    /\ RaceDone
    /\ call.kind = "add"
    /\ \A r \in before : r.ID # policyID(call.ptype, call.rule)
    /\ \E r \in table : r.ID = policyID(call.ptype, call.rule)

\* The race of an update and a remove on a table where the row of the old
\* tuple is the only row the update matches and no row has the new content.
LostUpdateCase ==
    LET oldLine == savePolicyLine(call.ptype, call.rule)
        newLine == savePolicyLine(call.ptype, call.newRule)
    IN  /\ Racing
        /\ call.kind = "update"
        /\ call.rule # call.newRule
        /\ \A r \in before : queryString(r, oldLine) => r = oldLine
        /\ \A r \in before : ~SameContent(r, newLine)

\* C27: when UpdatePolicy(old, new) and RemovePolicy(old) race on a table
\* that holds the row of old, and both have returned, both returned no error
\* and the table holds neither a row of old nor a row of new; the
\* interleaving in which the delete runs before the update is one of them.
C27_UpdateLostToRemove ==
    (LostUpdateCase /\ RaceDone)
        => LET oldLine == savePolicyLine(call.ptype, call.rule)
               newLine == savePolicyLine(call.ptype, call.newRule)
           IN  /\ call.err = <<Nil, Nil>>
               /\ \A r \in table : /\ ~SameContent(r, oldLine)
                                   /\ ~SameContent(r, newLine)
                                   /\ r.ID \notin {oldLine.ID, newLine.ID}

\* Both calls returned and the delete of the remove ran before the update.
C27_Witness ==
    /\ LostUpdateCase
    /\ RaceDone
    /\ call.first = 2
    /\ call.err = <<Nil, Nil>>
    /\ savePolicyLine(call.ptype, call.rule) \in before

----------------------------------------------------------------------------
(* Properties of the loads of wide filters and of rows that do not decode *)

\* A filter with a list of more than six entries.
Oversize(filter) ==
    /\ filter.kind = "filter"
    /\ \/ filter.P.present /\ Len(filter.P.values) > NumFields
       \/ filter.G.present /\ Len(filter.G.values) > NumFields

\* C22: LoadFilteredPolicy with a P or G list of more than six entries
\* returns an error, whatever the surplus entries are, empty or not.
C22_OversizeFilterRejected ==
    (load.op = "LoadFilteredPolicy" /\ Oversize(load.filter)) => load.err # Nil

\* The load returned a filter-shape error: the argument is not a *Filter, or
\* a list of the filter addresses more than six slots.
ShapeError(l) ==
    /\ l.op = "LoadFilteredPolicy"
    /\ l.fault = NoFault
    /\ l.err # Nil
    /\ \/ l.filter.kind = "invalid"
       \/ l.filter.kind = "filter"
            /\ \/ l.filter.P.present /\ BuildQueryFails(l.filter.P.values)
               \/ l.filter.G.present /\ BuildQueryFails(l.filter.G.values)

\* C24: a LoadFilteredPolicy that returns a filter-shape error, also one of
\* a valid P list and an invalid G list, appends no tuple to the model and
\* leaves the flag of IsFiltered as it was.
C24_ShapeErrorLoadsNothing ==
    [][(load = NoLoad /\ ShapeError(load')) => (model' = model /\ filtered' = filtered)]_vars

\* The rows a load that met no other error hands to the decoder.
Decoded(l) ==
    IF l.op = "LoadPolicy" THEN table
    ELSE IF l.op = "LoadFilteredPolicy" /\ l.fault = NoFault
         THEN CASE l.filter.kind = "nil" -> table
                [] l.filter.kind = "invalid" -> {}
                [] OTHER ->
                    IF l.filter.P.present /\ BuildQueryFails(l.filter.P.values) THEN {}
                    ELSE IF l.filter.G.present /\ BuildQueryFails(l.filter.G.values)
                         THEN SectionRows(table, P, l.filter.P)
                         ELSE SectionRows(table, P, l.filter.P)
                                \cup SectionRows(table, G, l.filter.G)
         ELSE {}

\* C26: a LoadPolicy or LoadFilteredPolicy that decodes a stored row whose
\* decoding fails returns an error.
C26_DecodeErrorReturned ==
    (\E r \in Decoded(load) : Undecodable(r)) => load.err # Nil

\* C30: a LoadFilteredPolicy with P and G both present and empty appends the
\* tuples LoadPolicy appends, also when rows of type "p2" or "g2" are stored.
C30_EmptyFilterLoadsAll ==
    (/\ load.op = "LoadFilteredPolicy"
     /\ load.fault = NoFault
     /\ load.filter = [kind |-> "filter", P |-> [present |-> TRUE, values |-> <<>>],
                                          G |-> [present |-> TRUE, values |-> <<>>]]
     /\ \A r \in table : ~Undecodable(r))
        => model = LoadedEntries(table)

----------------------------------------------------------------------------
(* Properties of the filtered remove and update, and of the stored rows *)

\* C23: a RemoveFilteredPolicy or UpdateFilteredPolicies whose fieldIndex
\* plus number of values exceeds six returns an error and deletes or
\* inserts no row.
C23_OversizeFilterChangesNothing ==
    (/\ call.op \in {"RemoveFilteredPolicy", "UpdateFilteredPolicies"}
     /\ call.fieldIndex + Len(call.fieldValues) > NumFields)
        => (call.err # Nil /\ table = before)

\* C25: an UpdateFilteredPolicies that returned no error, of any list of
\* new tuples, has deleted exactly the rows RemoveFilteredPolicy of the same
\* filter deletes, an empty value being a wildcard: a row stored before is
\* stored after if and only if the filter does not select it or a new
\* tuple wrote it again.
C25_FilteredUpdateDeletesAsRemove ==
    (FilteredUpdated /\ call.fieldIndex + Len(call.fieldValues) <= NumFields)
        => \A r \in before :
              (r \in table)
                  <=> \/ ~FilterWhere(r, call.ptype, call.fieldIndex, call.fieldValues)
                      \/ \E i \in 1..Len(call.newPolicies) :
                            r = savePolicyLine(call.ptype, call.newPolicies[i])

\* C28: no two stored rows have the same rule type and the same six slots.
C28_NoDuplicateContent ==
    \A r1 \in table, r2 \in table : SameContent(r1, r2) => r1 = r2

\* C29: no two stored rows share an identity, and the identity of each row
\* is the identity computed from its rule type and a tuple of its slots.
C29_IdentityOfContent ==
    /\ \A r1 \in table, r2 \in table : r1.ID = r2.ID => r1 = r2
    /\ \A r \in table :
          \E k \in LastIndex(r.V)..NumFields :
              r.ID = policyID(r.Ptype, SubSeq(r.V, 1, k))

====
